---- MODULE Spec2Model ----
(***************************************************************************)
(* Model of the MongoDB MCP server (src/server.js): the tool-call          *)
(* dispatcher, ensureConnected, the dynamicModels registry and the generic *)
(* collection handlers, together with the parts of mongoose and of the     *)
(* store that the handlers drive (the compiled-model table mongoose.models,*)
(* the default connection's readyState, the physical collections).         *)
(*                                                                         *)
(* One tool call is an async function: it runs without interruption up to *)
(* its next await, so every action below is one such uninterrupted run.    *)
(***************************************************************************)
EXTENDS Integers, Sequences, FiniteSets, TLC

\* ------------------------------------------------------------------ bounds
\* Calls the transport delivers in one behaviour, one at a time.
MaxCalls == 3
\* Calls the transport delivers in one behaviour when it pipelines them:
\* all of them may be in flight at the same time.
MaxInflight == 2

Callers == 1..MaxInflight

\* Collection names callers use.
Names == {"A", "B"}

\* ------------------------------------------------- mongoose.connection
\* mongoose.connection.readyState values read at src/server.js:411.
Disconnected == 0
Connected == 1
ConnectingState == 2
DisconnectingState == 3

\* ---------------------------------------------------------- tool names
\* The case labels of the dispatcher's switch.
KnownTools ==
  {"add_dsa_question", "get_dsa_questions", "get_collection_stats",
   "get_all_collections", "create_collection", "delete_collection",
   "get_documents", "add_document", "update_collection_name"}

\* Tools whose handler takes no collection name and never touches the registry.
PlainTools ==
  {"add_dsa_question", "get_dsa_questions", "get_collection_stats",
   "get_all_collections"}

\* Names a caller may send that the switch does not know.
UnknownTools == {"drop_everything", "add_multiple_dsa_questions", "delete_dsa_question"}

\* ------------------------------------------------- schema descriptors
\* A descriptor is args.schema[field]: type, required (absent = FALSE, as
\* `fieldConfig.required || false` reads it) and itemType ("undefined" when
\* the key is absent).
Desc(t, r, i) == [type |-> t, required |-> r, itemType |-> i]

\* The types createDynamicSchema has a branch for.
SchemaTypes == {"String", "Number", "Boolean", "Date", "Array", "Object"}

\* The item types the create_collection inputSchema lists.
ItemTypes == {"String", "Number", "Boolean", "Mixed"}

\* Descriptor sets callers send with create_collection (one field each).
SchemaInputs ==
  { [title |-> Desc("String", TRUE, "undefined")],
    [flags |-> Desc("Array", TRUE, "Boolean")],
    [age   |-> Desc("Number", FALSE, "Number")],
    [blob  |-> Desc("Buffer", FALSE, "undefined")] }

NoSchema == [none |-> Desc("undefined", FALSE, "undefined")]

\* One compiled schema path.
FieldSchema(cfg) ==
  IF cfg.type = "Array"
    THEN \* [{ type: String }] / [{ type: Number }] / [{ type: Mixed }]:
         \* no `required` option is passed for arrays.
         [type |-> IF cfg.itemType = "String" THEN "String"
                   ELSE IF cfg.itemType = "Number" THEN "Number"
                   ELSE "Mixed",
          array |-> TRUE, required |-> FALSE]
    ELSE [type |-> IF cfg.type = "Object" THEN "Mixed" ELSE cfg.type,
          array |-> FALSE, required |-> cfg.required]

\* createDynamicSchema: one path per field whose type has a branch; a field
\* of any other type is skipped. The schema is strict (mongoose's default).
createDynamicSchema(schemaDefinition) ==
  [fields |-> [f \in {g \in DOMAIN schemaDefinition :
                        schemaDefinition[g].type \in SchemaTypes}
                 |-> FieldSchema(schemaDefinition[f])],
   strict |-> TRUE]

\* new mongoose.Schema({}, { strict: false, timestamps: true })
genericSchema == [fields |-> [f \in {} |-> FieldSchema(Desc("String", FALSE, "undefined"))],
                  strict |-> FALSE]

\* The schema of the fixed Question model (paths only).
questionSchema ==
  [fields |-> [f \in {"name", "description", "constraints", "level",
                      "datastructure", "algorithm", "testcases"} |->
                 IF f \in {"datastructure", "algorithm"}
                   THEN [type |-> "String", array |-> TRUE, required |-> FALSE]
                 ELSE IF f = "testcases"
                   THEN [type |-> "Mixed", array |-> TRUE, required |-> FALSE]
                 ELSE [type |-> "String", array |-> FALSE, required |-> TRUE]],
   strict |-> TRUE]

\* ------------------------------------------------------------- errors
\* A thrown Error: its message is kept as the sequence of its parts, so that
\* `outer: ${error.message}` is concatenation and includes() is membership.
Err(msg) == [ok |-> FALSE, code |-> "Error", message |-> msg]

\* new McpError(code, message): the SDK prefixes the message with the code.
McpError(code, msg) ==
  [ok |-> FALSE, code |-> code, message |-> <<"MCP error", code>> \o msg]

Includes(msg, part) == \E i \in 1..Len(msg) : msg[i] = part

\* A handler's success payload: { content: [{ type: 'text', text }] }.
Content(text) == [ok |-> TRUE, code |-> "content", message |-> text]

NoOut == [ok |-> FALSE, code |-> "", message |-> << >>]

\* (A catch block that rethrows McpErrors as they are would be this one.)
WrapPassingMcpErrors(error) ==
  IF error.code = "Error"
    THEN McpError("InternalError", <<"Tool execution failed">> \o error.message)
    ELSE error

\* The dispatcher's catch block: every error leaves as
\* McpError(InternalError, `Tool execution failed: ${error.message}`).
Wrap(error) ==
  McpError("InternalError", <<"Tool execution failed">> \o error.message)

\* --------------------------------------------------------------- Map
MapSet(m, k, v) == [x \in DOMAIN m \cup {k} |-> IF x = k THEN v ELSE m[x]]
\* (A Map.delete that removed nothing would be this.)
MapDeleteNothing(m, k) == m

MapDelete(m, k) == [x \in DOMAIN m \ {k} |-> m[x]]

\* -------------------------------------------------------------- state
VARIABLES
  readyState,      \* mongoose.connection.readyState
  opening,         \* physical connections being opened by mongoose.connect
  clients,         \* physical connections open to the store
  reachable,       \* whether the store answers a connection attempt
  mongooseModels,  \* mongoose.models: model name -> [schema, coll]
  dynamicModels,   \* this.dynamicModels: collection name -> model (by name)
  colls,           \* the physical collections of the store
  calls,           \* the tool calls in flight, by slot
  issued,          \* calls received so far
  proc,            \* the process: running, or how far the SIGINT handler is
  questions,       \* the DsaQuestions collection, oldest document first
  answer,          \* what the last fixed-schema (question) handler returned
  defined,         \* names given a strict binding by create_collection, or
                   \* by a rename from such a name (history)
  vacated          \* why a name last lost its binding (history)

vars == <<readyState, opening, clients, reachable, mongooseModels,
          dynamicModels, colls, calls, issued, proc, questions, answer,
          defined, vacated>>

conn == <<readyState, opening, clients, reachable>>
registry == <<mongooseModels, dynamicModels>>
history == <<defined, vacated>>
dsa == <<questions, answer>>

\* Handlers and the connection's events run while the process is alive and
\* the SIGINT handler is not in its last, uninterrupted run (from the moment
\* mongoose.disconnect() resolves to process.exit).
Alive == proc \in {"running", "waiting", "disconnecting"}

Idle ==
  [pc |-> "Idle", stage |-> "", op |-> "", name |-> "", newName |-> "", schema |-> NoSchema,
   prev |-> "", bound |-> "", why |-> "", fresh |-> FALSE, wasDefined |-> FALSE,
   reply |-> << >>, out |-> NoOut,
   connects |-> 0,   \* connection attempts this call has awaited (history)
   ops |-> 0,        \* times the handler's store operation was performed (history)
   seq |-> 0,        \* the call is the seq-th the server received (history)
   doneAt |-> 0]     \* calls received when this one returned success (history)

\* What callers send: request.params.name and request.params.arguments.
ToolInputs ==
  [op : PlainTools \cup UnknownTools, name : {""}, newName : {""}, schema : {NoSchema}]
  \cup [op : {"create_collection"}, name : Names, newName : {""}, schema : SchemaInputs]
  \cup [op : {"delete_collection", "get_documents", "add_document"},
        name : Names, newName : {""}, schema : {NoSchema}]
  \cup {i \in [op : {"update_collection_name"}, name : Names, newName : Names,
               schema : {NoSchema}] : i.name # i.newName}

\* The calls a pipelining caller sends: one of each kind of handler, all on
\* the same collection so that they meet in the registry.
PipelinedInputs ==
  {in \in ToolInputs :
     /\ in.op \in {"get_all_collections", "drop_everything", "create_collection",
                   "delete_collection", "get_documents", "update_collection_name"}
     /\ in.name \in {"", "A"}
     /\ in.schema \in {NoSchema, [title |-> Desc("String", TRUE, "undefined")]}}

\* No fixed-schema handler has answered yet.
NoAnswer ==
  [op |-> "", query |-> [level |-> "", datastructure |-> "", algorithm |-> ""],
   limit |-> 0, found |-> <<>>, total |-> 0, levels |-> <<>>, ds |-> <<>>,
   algo |-> <<>>]

Init ==
  /\ proc = "running"
  /\ questions = <<>>
  /\ answer = NoAnswer
  /\ readyState = Disconnected
  /\ opening = 0
  /\ clients = 0
  /\ reachable \in BOOLEAN
  /\ mongooseModels = [n \in {"Question"} |-> [schema |-> questionSchema, coll |-> "DsaQuestions"]]
  /\ dynamicModels = [n \in {} |-> ""]
  /\ colls = {"A"}
  /\ calls = [c \in Callers |-> Idle]
  /\ issued = 0
  /\ defined = {}
  /\ vacated = [n \in Names |-> "never"]

\* ------------------------------------------------- mongoose, the store
\* mongoose.model(name, schema, collection) with a schema built by the
\* caller: compiling a name that mongoose.models already holds throws
\* OverwriteModelError, since the schema passed is never the compiled one.
CanCompile(models, modelName) == modelName \notin DOMAIN models

Compile(models, modelName, schema, collection) ==
  MapSet(models, modelName, [schema |-> schema, coll |-> collection])

OverwriteModelError(modelName) ==
  <<"Cannot overwrite model once compiled", modelName>>

\* (A connect that opened a connection on every call would be this one.)
MongooseConnectAlwaysOpens(state, n) == n + 1

\* mongoose.connect on the default connection: it opens a physical
\* connection only when none is open or being opened (the connection is
\* disconnected, or the client it had is being closed); while one is being
\* opened (or is open) the call joins it. The result is the number of
\* physical connections being opened.
MongooseConnect(state, n) ==
  IF state \in {Disconnected, DisconnectingState} THEN n + 1 ELSE n

\* The binding a handler finds or makes for collectionName (the
\* get-or-create block of getDocuments and addDocument); suffix is the
\* handler's model-name suffix.
ModelNameFor(collectionName, suffix) == collectionName \o suffix

Suffix(op) == IF op = "get_documents" THEN "_Generic" ELSE "_Add"

\* ------------------------------------------------------------ actions
Terminal == {"Succeeded", "Failed"}

InFlight == {c \in Callers : calls[c].pc # "Idle"}

\* The transport delivers a CallToolRequest: the async handler starts.
Receive(c, in, width, limit) ==
  /\ Alive
  /\ UNCHANGED <<proc, dsa>>
  /\ issued < limit
  /\ Cardinality(InFlight) < width
  /\ calls[c].pc = "Idle"
  /\ \A d \in Callers : d < c => calls[d].pc # "Idle"
  /\ calls' = [calls EXCEPT ![c] =
       [Idle EXCEPT !.pc = "Received", !.stage = "Received", !.op = in.op, !.name = in.name,
                    !.newName = in.newName, !.schema = in.schema,
                    !.seq = issued + 1]]
  /\ issued' = issued + 1
  /\ UNCHANGED <<conn, registry, colls, history>>

\* ensureConnected when readyState !== 1: await mongoose.connect(...).
EnsureConnected(c) ==
  /\ Alive
  /\ UNCHANGED <<proc, dsa>>
  /\ calls[c].pc = "Received"
  /\ readyState # Connected
  /\ opening' = MongooseConnect(readyState, opening)
  /\ readyState' = ConnectingState
  /\ calls' = [calls EXCEPT ![c].pc = "Connecting", ![c].stage = "Connecting",
                            ![c].connects = @ + 1]
  /\ UNCHANGED <<clients, reachable, registry, colls, issued, history>>

\* The connection attempt succeeds: mongoose.connect resolves.
ConnectOk ==
  /\ Alive
  /\ UNCHANGED <<proc, dsa>>
  /\ readyState = ConnectingState
  /\ reachable
  /\ readyState' = Connected
  /\ clients' = clients + opening
  /\ opening' = 0
  /\ UNCHANGED <<reachable, registry, colls, calls, issued, history>>

ConnectionFailure == Err(<<"connect ECONNREFUSED">>)

\* (A connection left in the connecting state by a failure would be this.)
StateAfterFailStuck == ConnectingState

\* After a failed attempt the default connection is disconnected again.
StateAfterFail == Disconnected

\* (A failed attempt after which the awaiting calls start over would be
\* this.)
ConnectFailRetrying ==
  /\ Alive
  /\ UNCHANGED <<proc, dsa>>
  /\ readyState = ConnectingState
  /\ ~reachable
  /\ readyState' = StateAfterFail
  /\ opening' = 0
  /\ calls' = [c \in Callers |->
       IF calls[c].pc = "Connecting"
         THEN [calls[c] EXCEPT !.pc = "Received"]
         ELSE calls[c]]
  /\ UNCHANGED <<clients, reachable, registry, colls, issued, history>>

\* The connection attempt fails: mongoose.connect rejects in every call
\* awaiting it, and each is caught by its dispatcher's catch block.
ConnectFail ==
  /\ Alive
  /\ UNCHANGED <<proc, dsa>>
  /\ readyState = ConnectingState
  /\ ~reachable
  /\ readyState' = StateAfterFail
  /\ opening' = 0
  /\ calls' = [c \in Callers |->
       IF calls[c].pc = "Connecting"
         THEN [calls[c] EXCEPT !.pc = "Failed", !.out = Wrap(ConnectionFailure)]
         ELSE calls[c]]
  /\ UNCHANGED <<clients, reachable, registry, colls, issued, history>>

\* The store comes up or goes down while a connection attempt is under way
\* (nothing else observes it).
Reach ==
  /\ Alive
  /\ UNCHANGED <<proc, dsa>>
  /\ readyState = ConnectingState
  /\ reachable' = ~reachable
  /\ UNCHANGED <<readyState, opening, clients, registry, colls, calls, issued, history>>

\* Message prefixes of the handlers' catch blocks.
FailPrefix(op, name) ==
  CASE op = "add_dsa_question" -> <<"Failed to add question">>
    [] op = "get_dsa_questions" -> <<"Failed to get questions">>
    [] op = "get_collection_stats" -> <<"Failed to get collection stats">>
    [] op = "get_all_collections" -> <<"Failed to get collections">>
    [] op = "create_collection" -> <<"Failed to create collection">>
    [] op = "delete_collection" -> <<"Failed to delete collection">>
    [] op = "get_documents" -> <<"Failed to get documents from", name>>
    [] op = "add_document" -> <<"Failed to add document to", name>>
    [] op = "update_collection_name" -> <<"Failed to rename collection">>
    [] OTHER -> << >>

\* createCollection up to `await Model.createCollection()`: build the
\* schema, compile the model, set the binding.
CreateCollectionStart(c) ==
  LET call == calls[c]
      mongooseSchema == createDynamicSchema(call.schema)
      before == IF call.name \in DOMAIN dynamicModels
                  THEN dynamicModels[call.name] ELSE ""
  IN IF CanCompile(mongooseModels, call.name)
       THEN /\ mongooseModels' =
                 Compile(mongooseModels, call.name, mongooseSchema, call.name)
            /\ dynamicModels' = MapSet(dynamicModels, call.name, call.name)
            /\ defined' = defined \cup {call.name}
            /\ calls' = [calls EXCEPT ![c] =
                 [call EXCEPT !.pc = "Executing", !.stage = "Executing", !.prev = before,
                              !.bound = call.name, !.fresh = TRUE]]
       ELSE /\ calls' = [calls EXCEPT ![c] =
                 [call EXCEPT !.pc = "Failed", !.stage = "Executing", !.prev = before,
                   !.out = Wrap(Err(FailPrefix(call.op, call.name)
                                    \o OverwriteModelError(call.name)))]]
            /\ UNCHANGED <<registry, defined>>

\* getDocuments / addDocument up to the awaited find / save: take the
\* cached model, or compile a non-strict one and cache it.
ResolveStart(c) ==
  LET call == calls[c]
      modelName == ModelNameFor(call.name, Suffix(call.op))
      seen == [call EXCEPT !.stage = "Executing", !.why = vacated[call.name],
                           !.wasDefined = call.name \in defined]
  IN IF call.name \in DOMAIN dynamicModels
       THEN /\ calls' = [calls EXCEPT ![c] =
                 [seen EXCEPT !.pc = "Executing",
                              !.prev = dynamicModels[call.name],
                              !.bound = dynamicModels[call.name]]]
            /\ UNCHANGED <<registry, defined>>
     ELSE IF CanCompile(mongooseModels, modelName)
       THEN /\ mongooseModels' =
                 Compile(mongooseModels, modelName, genericSchema, call.name)
            /\ dynamicModels' = MapSet(dynamicModels, call.name, modelName)
            /\ calls' = [calls EXCEPT ![c] =
                 [seen EXCEPT !.pc = "Executing", !.bound = modelName,
                              !.fresh = TRUE]]
            /\ UNCHANGED defined
       ELSE /\ calls' = [calls EXCEPT ![c] =
                 [seen EXCEPT !.pc = "Failed",
                   !.out = Wrap(Err(FailPrefix(call.op, call.name)
                                    \o OverwriteModelError(modelName)))]]
            /\ UNCHANGED <<registry, defined>>

\* Handlers whose first statement is the awaited store operation.
AwaitStore(c) ==
  /\ calls' = [calls EXCEPT ![c].pc = "Executing", ![c].stage = "Executing"]
  /\ UNCHANGED <<registry, defined>>

\* (A switch without the default branch's throw would go on like this.)
UnknownToolRunsHandler(c) == AwaitStore(c)

\* The switch's default branch: McpError(MethodNotFound) thrown inside the
\* try, so the catch block wraps it like any other error.
UnknownTool(c) ==
  /\ calls' = [calls EXCEPT ![c] =
       [calls[c] EXCEPT !.pc = "Failed", !.stage = "Resolving",
          !.out = Wrap(McpError("MethodNotFound", <<"Unknown tool", calls[c].op>>))]]
  /\ UNCHANGED <<registry, defined>>

\* The switch and the handler's run up to its first await.
Handle(c) ==
  CASE calls[c].op = "create_collection" -> CreateCollectionStart(c)
    [] calls[c].op \in {"get_documents", "add_document"} -> ResolveStart(c)
    [] calls[c].op \in {"delete_collection", "update_collection_name"}
                       \cup PlainTools -> AwaitStore(c)
    [] OTHER -> UnknownTool(c)

\* (A dispatcher that entered the switch without ensureConnected would be
\* this.)
DispatchUnconnected(c) ==
  /\ Alive
  /\ UNCHANGED <<proc, dsa>>
  /\ calls[c].pc \in {"Received", "Connecting"}
  /\ Handle(c)
  /\ UNCHANGED <<conn, colls, issued, vacated>>

\* The call continues after ensureConnected, which found the connection
\* ready or awaited the attempt that made it ready.
Dispatch(c) ==
  /\ Alive
  /\ UNCHANGED <<proc, dsa>>
  /\ readyState = Connected
  /\ calls[c].pc \in {"Received", "Connecting"}
  /\ Handle(c)
  /\ UNCHANGED <<conn, colls, issued, vacated>>

\* ensureConnected while another call's attempt is under way, in the
\* mongoose versions whose connect() returns the connection being opened
\* without awaiting it: the call goes on at once and its store operation
\* is buffered until the connection is ready.
DispatchEarly(c) ==
  /\ Alive
  /\ UNCHANGED <<proc, dsa>>
  /\ readyState = ConnectingState
  /\ calls[c].pc = "Received"
  /\ opening' = MongooseConnect(readyState, opening)
  /\ Handle(c)
  /\ UNCHANGED <<readyState, clients, reachable, colls, issued, vacated>>

Ok == <<"ok">>

\* The store performs the operation the handler awaits and replies, or the
\* operation fails (a store error, or a buffered operation timing out while
\* the connection is not ready).
StoreExec(c) ==
  /\ Alive
  /\ UNCHANGED <<proc, dsa>>
  /\ calls[c].pc = "Executing"
  /\ LET call == calls[c]
         target == IF call.bound \in DOMAIN mongooseModels
                     THEN mongooseModels[call.bound].coll ELSE call.name
     IN \E works \in {FALSE} \cup {readyState = Connected} :
          LET res ==
            IF ~works THEN [reply |-> <<"store error">>, colls |-> colls]
            ELSE CASE call.op \in {"create_collection", "add_document"} ->
                        [reply |-> Ok, colls |-> colls \cup {target}]
                   [] call.op = "delete_collection" ->
                        IF call.name \in colls
                          THEN [reply |-> Ok, colls |-> colls \ {call.name}]
                          ELSE [reply |-> <<"ns not found">>, colls |-> colls]
                   [] call.op = "update_collection_name" ->
                        IF call.name \notin colls
                          THEN [reply |-> <<"source namespace does not exist">>,
                                colls |-> colls]
                        ELSE IF call.newName \in colls
                          THEN [reply |-> <<"target namespace exists">>,
                                colls |-> colls]
                        ELSE [reply |-> Ok,
                              colls |-> (colls \ {call.name}) \cup {call.newName}]
                   [] OTHER -> [reply |-> Ok, colls |-> colls]
          IN /\ colls' = res.colls
             /\ calls' = [calls EXCEPT ![c] =
                  [call EXCEPT !.pc = "Replied", !.reply = res.reply, !.ops = @ + 1]]
  /\ UNCHANGED <<conn, registry, issued, history>>

\* The error a handler's catch block throws for a store error.
HandlerError(call) ==
  IF call.op = "delete_collection" /\ Includes(call.reply, "ns not found")
    THEN Err(<<"Collection does not exist", call.name>>)
  ELSE IF call.op = "update_collection_name"
          /\ Includes(call.reply, "source namespace does not exist")
    THEN Err(<<"Collection does not exist", call.name>>)
  ELSE Err(FailPrefix(call.op, call.name) \o call.reply)

\* (A mapping update cut in two by an await, seen after its first half,
\* would be this.)
RekeyFirstHalf(map, oldName, newName) ==
  IF oldName \in DOMAIN map THEN MapDelete(map, oldName) ELSE map

\* (The mapping update without its `if (model)` guard would be this.)
RekeyUnguarded(map, oldName, newName) ==
  MapSet(MapDelete(map, oldName), newName,
         IF oldName \in DOMAIN map THEN map[oldName] ELSE "undefined")

\* The binding map after updateCollectionName's `Update model mapping`.
Rekey(map, oldName, newName) ==
  IF oldName \in DOMAIN map
    THEN MapSet(MapDelete(map, oldName), newName, map[oldName])
    ELSE map

\* The handler resumes with the store's reply, finishes, and the
\* dispatcher returns its content or wraps its error.
Continue(c) ==
  /\ Alive
  /\ UNCHANGED <<proc, dsa>>
  /\ calls[c].pc = "Replied"
  /\ LET call == calls[c] IN
       IF call.reply # Ok
         THEN /\ calls' = [calls EXCEPT ![c] =
                   [call EXCEPT !.pc = "Failed", !.out = Wrap(HandlerError(call))]]
              /\ UNCHANGED <<dynamicModels, history>>
       ELSE /\ calls' = [calls EXCEPT ![c] =
                 [call EXCEPT !.pc = "Succeeded",
                    !.bound = IF call.op \in {"update_collection_name", "delete_collection"}
                                THEN (IF call.name \in DOMAIN dynamicModels
                                        THEN dynamicModels[call.name] ELSE "")
                                ELSE call.bound,
                    !.out = Content(<<call.op, call.name>>),
                    !.doneAt = issued]]
            /\ dynamicModels' =
                 CASE call.op = "delete_collection" ->
                        MapDelete(dynamicModels, call.name)
                   [] call.op = "update_collection_name" ->
                        Rekey(dynamicModels, call.name, call.newName)
                   [] OTHER -> dynamicModels
            /\ vacated' =
                 CASE call.op = "delete_collection" ->
                        [vacated EXCEPT ![call.name] = "deleted"]
                   [] call.op = "update_collection_name"
                        /\ call.name \in DOMAIN dynamicModels ->
                        [vacated EXCEPT ![call.name] = "renamed"]
                   [] OTHER -> vacated
            /\ defined' =
                 IF call.op = "update_collection_name"
                    /\ call.name \in DOMAIN dynamicModels /\ call.name \in defined
                   THEN defined \cup {call.newName} ELSE defined
  /\ UNCHANGED <<conn, mongooseModels, colls, issued>>

\* The response reaches the caller; the slot is free again.
Respond(c) ==
  /\ Alive
  /\ UNCHANGED <<proc, dsa>>
  /\ calls[c].pc \in Terminal
  /\ calls' = [calls EXCEPT ![c] = Idle]
  /\ UNCHANGED <<conn, registry, colls, issued, history>>

\* The steps of the server and of its environment, for the calls `inputs`
\* delivered at most `width` at a time and `limit` in all.
Step(inputs, width, limit) ==
  \/ \E c \in Callers, in \in inputs : Receive(c, in, width, limit)
  \/ \E c \in Callers : EnsureConnected(c)
  \/ ConnectOk
  \/ ConnectFail
  \/ Reach
  \/ \E c \in Callers : Dispatch(c)
  \/ \E c \in Callers : StoreExec(c)
  \/ \E c \in Callers : Continue(c)
  \/ \E c \in Callers : Respond(c)

\* A caller that waits for each response before it sends the next call.
Next == Step(ToolInputs, 1, MaxCalls)

Spec == Init /\ [][Next]_vars

\* A caller that pipelines its calls: a call may now arrive while another
\* call's connection attempt is under way.
NextPipelined ==
  \/ Step(PipelinedInputs, MaxInflight, MaxInflight)
  \/ \E c \in Callers : DispatchEarly(c)

SpecPipelined == Init /\ [][NextPipelined]_vars

\* ------------------------------------------------------------ shutdown
\* SIGINT: the handler starts and calls mongoose.disconnect(). An open
\* connection starts closing its client; one that is being opened is closed
\* once it is open; on a disconnected one there is nothing to wait for.
Sigint ==
  /\ proc = "running"
  /\ proc' = CASE readyState = Connected -> "disconnecting"
               [] readyState = ConnectingState -> "waiting"
               [] OTHER -> "disconnected"
  /\ readyState' = IF readyState = Connected THEN DisconnectingState ELSE readyState
  /\ UNCHANGED <<opening, clients, reachable, registry, colls, calls, issued,
                 dsa, history>>

\* The attempt mongoose.disconnect() was waiting for has ended: the
\* connection that opened starts closing, or there is none to close.
DisconnectAfterOpen ==
  /\ proc = "waiting"
  /\ readyState \in {Connected, Disconnected}
  /\ proc' = IF readyState = Connected THEN "disconnecting" ELSE "disconnected"
  /\ readyState' = IF readyState = Connected THEN DisconnectingState ELSE readyState
  /\ UNCHANGED <<opening, clients, reachable, registry, colls, calls, issued,
                 dsa, history>>

\* The client that was being closed is closed: the connection is marked
\* disconnected and `await mongoose.disconnect()` resolves.
DisconnectDone ==
  /\ proc = "disconnecting"
  /\ clients' = clients - 1
  /\ readyState' = Disconnected
  /\ proc' = "disconnected"
  /\ UNCHANGED <<opening, reachable, registry, colls, calls, issued, dsa, history>>

\* await this.server.close().
CloseTransport ==
  /\ proc = "disconnected"
  /\ proc' = "transport closed"
  /\ UNCHANGED <<conn, registry, colls, calls, issued, dsa, history>>

\* process.exit(0).
Exit ==
  /\ proc = "transport closed"
  /\ proc' = "exited"
  /\ UNCHANGED <<conn, registry, colls, calls, issued, dsa, history>>

\* The calls in flight around a shutdown.
ShutdownInputs == {in \in PipelinedInputs : in.op \in {"get_all_collections", "get_documents"}}

\* The server with its SIGINT handler: the signal may arrive at any moment,
\* calls keep arriving until the transport is closed.
NextShutdown ==
  \/ Step(ShutdownInputs, MaxInflight, MaxInflight)
  \/ Sigint
  \/ DisconnectAfterOpen
  \/ DisconnectDone
  \/ CloseTransport
  \/ Exit

SpecShutdown == Init /\ [][NextShutdown]_vars

\* ------------------------------------- the fixed DsaQuestions collection
\* The three Question handlers over the data they read and write, for calls
\* served one at a time on an open connection: each action is the handler
\* with the store operations it awaits.
MaxQuestions == 3
DefaultLimit == 10
TopN == 10

Min(a, b) == IF a < b THEN a ELSE b

\* Documents a caller adds (the fields the handlers read). A document may
\* list a token twice: the schema's arrays are plain [String].
QuestionInputs ==
  { [level |-> "easy", datastructure |-> <<"array">>, algorithm |-> <<"dp">>],
    [level |-> "easy", datastructure |-> <<"array", "array">>, algorithm |-> <<"bfs">>],
    [level |-> "hard", datastructure |-> <<"array", "hash table">>, algorithm |-> <<"dp">>],
    [level |-> "hard", datastructure |-> <<"hash table">>, algorithm |-> <<"bfs", "dp">>],
    [level |-> "medium",
     datastructure |-> <<"stack", "queue", "heap", "tree", "graph", "trie",
                         "linked list", "matrix", "string", "set", "deque">>,
     algorithm |-> <<"dp">>] }

\* args.filter of get_dsa_questions; "" is an absent (falsy) entry.
FilterInputs ==
  [level : {"", "easy"}, datastructure : {"", "array"}, algorithm : {"", "dp"}]

\* args.limit of get_dsa_questions: absent, or a number.
LimitInputs ==
  {[given |-> FALSE, value |-> 0]} \cup [given : {TRUE}, value : {0, 1, 2}]

Has(seq, x) == \E i \in 1..Len(seq) : seq[i] = x

\* The query object getDsaQuestions builds: level by equality, the two
\* token fields by {$in: [token]}, which an array field matches when it
\* holds the token.
Matches(q, query) ==
  /\ query.level # "" => q.level = query.level
  /\ query.datastructure # "" => Has(q.datastructure, query.datastructure)
  /\ query.algorithm # "" => Has(q.algorithm, query.algorithm)

\* .sort({createdAt: -1}) over a set of positions: newest first.
RECURSIVE NewestFirst(_)
NewestFirst(S) ==
  IF S = {} THEN <<>>
  ELSE LET m == CHOOSE i \in S : \A j \in S : j <= i
       IN <<m>> \o NewestFirst(S \ {m})

\* The cursor's limit: a limit of 0 is no limit.
Limit(seq, n) == IF n = 0 THEN seq ELSE SubSeq(seq, 1, Min(n, Len(seq)))

\* Question.find(query).limit(limit).sort({createdAt: -1}): a query is
\* sorted before it is limited, in whichever order the two were chained.
Find(docs, query, limit) ==
  Limit(NewestFirst({i \in 1..Len(docs) : Matches(docs[i], query)}), limit)

\* {$unwind: '$field'}: one output document per array element.
RECURSIVE Unwind(_, _)
Unwind(docs, field) ==
  IF docs = <<>> THEN <<>>
  ELSE Head(docs)[field] \o Unwind(Tail(docs), field)

Occurrences(seq, x) == Cardinality({i \in 1..Len(seq) : seq[i] = x})

\* {$group: {_id: '$field', count: {$sum: 1}}}: one group per distinct
\* value, counting the input documents that carry it.
RECURSIVE Group(_, _)
Group(seq, all) ==
  IF seq = <<>> THEN <<>>
  ELSE LET rest == Group(SubSeq(seq, 1, Len(seq) - 1), all)
           x == seq[Len(seq)]
       IN IF \E i \in 1..Len(rest) : rest[i].id = x THEN rest
          ELSE Append(rest, [id |-> x, count |-> Occurrences(all, x)])

Reverse(seq) == [i \in 1..Len(seq) |-> seq[Len(seq) + 1 - i]]

RECURSIVE Insert(_, _)
Insert(sorted, g) ==
  IF sorted = <<>> THEN <<g>>
  ELSE IF Head(sorted).count >= g.count THEN <<Head(sorted)>> \o Insert(Tail(sorted), g)
  ELSE <<g>> \o sorted

\* {$sort: {count: -1}}: groups of equal count stay in the order they
\* came in.
RECURSIVE SortByCount(_)
SortByCount(groups) ==
  IF groups = <<>> THEN <<>>
  ELSE Insert(SortByCount(SubSeq(groups, 1, Len(groups) - 1)), groups[Len(groups)])

\* The order $group emits its groups in is the store's choice; two of the
\* orders it can take are modelled.
GroupOrders == {"first seen", "last seen"}

Emit(groups, order) == IF order = "first seen" THEN groups ELSE Reverse(groups)

\* The pipeline of dsStats and algoStats.
TopTokens(docs, field, order) ==
  LET tokens == Unwind(docs, field)
  IN Limit(SortByCount(Emit(Group(tokens, tokens), order)), TopN)

\* The pipeline of levelStats.
LevelStats(docs) ==
  LET levels == [i \in 1..Len(docs) |-> docs[i].level]
  IN Group(levels, levels)

\* addDsaQuestion: new Question(question).save().
AddDsaQuestion(q) ==
  /\ Alive
  /\ Len(questions) < MaxQuestions
  /\ questions' = Append(questions, q)
  /\ answer' = [NoAnswer EXCEPT !.op = "add_dsa_question"]
  /\ UNCHANGED <<conn, registry, colls, calls, issued, proc, history>>

\* getDsaQuestions: const { filter = {}, limit = 10 } = args.
GetDsaQuestions(filter, limit) ==
  /\ Alive
  /\ LET n == IF limit.given THEN limit.value ELSE DefaultLimit
     IN answer' = [NoAnswer EXCEPT !.op = "get_dsa_questions", !.query = filter,
                                   !.limit = n, !.found = Find(questions, filter, n)]
  /\ UNCHANGED <<conn, registry, colls, calls, issued, proc, questions, history>>

\* getCollectionStats.
GetCollectionStats(order) ==
  /\ Alive
  /\ answer' = [NoAnswer EXCEPT !.op = "get_collection_stats",
                                !.total = Len(questions),
                                !.levels = LevelStats(questions),
                                !.ds = TopTokens(questions, "datastructure", order),
                                !.algo = TopTokens(questions, "algorithm", order)]
  /\ UNCHANGED <<conn, registry, colls, calls, issued, proc, questions, history>>

NextQuestions ==
  \/ \E q \in QuestionInputs : AddDsaQuestion(q)
  \/ \E filter \in FilterInputs, limit \in LimitInputs : GetDsaQuestions(filter, limit)
  \/ \E order \in GroupOrders : GetCollectionStats(order)

SpecQuestions == Init /\ [][NextQuestions]_vars

\* ------------------------------------------------------------ properties
\* The call has run its handler's first part (or failed trying to).
Dispatched(call) == call.stage = "Executing"

\* The binding resolve would return for a name the registry holds.
Binding(collectionName) == mongooseModels[dynamicModels[collectionName]]

NonStrictEmpty(model) ==
  /\ ~model.schema.strict
  /\ DOMAIN model.schema.fields = {}

\* The handler's get-or-create step did not throw: it has a model to use.
Resolved(call) == call.bound # ""

Resolving(call) ==
  /\ call.op \in {"get_documents", "add_document"}
  /\ Dispatched(call)

\* C1: after a rename from A to B that moved A's binding, the registry
\* holds that binding under B and none under A, and the next get_documents
\* or add_document on A succeeds in resolving A to a fresh non-strict
\* binding with no descriptors.
C1_RekeyThenResolve ==
  \A c \in Callers :
    LET call == calls[c] IN
      /\ (call.op = "update_collection_name" /\ call.pc = "Succeeded"
          /\ call.bound # "")
           => /\ call.newName \in DOMAIN dynamicModels
              /\ dynamicModels[call.newName] = call.bound
              /\ call.name \notin DOMAIN dynamicModels
      /\ (Resolving(call) /\ call.prev = "" /\ call.why = "renamed")
           => /\ Resolved(call)
              /\ call.fresh
              /\ NonStrictEmpty(mongooseModels[call.bound])

\* C2: create_collection on a name that already has a binding does not
\* fail in define, and the registry then holds exactly the new strict
\* binding built from the descriptors supplied, not the old one.
C2_DefineLastWriteWins ==
  \A c \in Callers :
    LET call == calls[c] IN
      (call.op = "create_collection" /\ Dispatched(call) /\ call.prev # "")
        => /\ Resolved(call)
           /\ call.bound # call.prev
           /\ call.name \in DOMAIN dynamicModels
           /\ dynamicModels[call.name] = call.bound
           /\ Binding(call.name).schema = createDynamicSchema(call.schema)

\* C3: a get_documents or add_document on a name with no cached binding
\* never fails to resolve, whatever came before: it compiles and caches a
\* non-strict binding with no descriptors.
C3_ResolveNeverFails ==
  \A c \in Callers :
    LET call == calls[c] IN
      (Resolving(call) /\ call.prev = "")
        => /\ Resolved(call)
           /\ call.fresh
           /\ NonStrictEmpty(mongooseModels[call.bound])
           /\ (call.pc = "Executing"
                 => /\ call.name \in DOMAIN dynamicModels
                    /\ dynamicModels[call.name] = call.bound)

\* A descriptor set the create_collection inputSchema admits, with
\* itemType only on arrays.
ValidDescriptor(d) ==
  /\ d.type \in SchemaTypes
  /\ d.itemType # "undefined" => (d.type = "Array" /\ d.itemType \in ItemTypes)

ValidDescriptorSet(def) == \A f \in DOMAIN def : ValidDescriptor(def[f])

\* The descriptor a compiled schema path stands for.
DescriptorOf(path) ==
  IF path.array
    THEN Desc("Array", path.required, path.type)
    ELSE Desc(IF path.type = "Mixed" THEN "Object" ELSE path.type,
              path.required, "undefined")

\* A descriptor with its defaults written out (an array without itemType
\* is an array of untyped items).
Normal(d) ==
  IF d.type = "Array" /\ d.itemType = "undefined"
    THEN Desc("Array", d.required, "Mixed") ELSE d

\* C4: after create_collection with a valid descriptor set succeeded, the
\* binding resolve returns for the name is strict and stands for exactly
\* the descriptors supplied: each field with its kind, its required flag
\* and its item kind.
C4_DefineThenResolveExact ==
  \A c \in Callers :
    LET call == calls[c] IN
      (call.op = "create_collection" /\ call.pc = "Succeeded"
       /\ ValidDescriptorSet(call.schema))
        => /\ call.name \in DOMAIN dynamicModels
           /\ Binding(call.name).schema.strict
           /\ DOMAIN Binding(call.name).schema.fields = DOMAIN call.schema
           /\ \A f \in DOMAIN call.schema :
                DescriptorOf(Binding(call.name).schema.fields[f])
                  = Normal(call.schema[f])

\* C5: for a name no create_collection ever defined, get_documents and
\* add_document always resolve, to a non-strict binding with no
\* descriptors, and to the cached binding when there is one.
C5_UndefinedResolvesSchemaless ==
  \A c \in Callers :
    LET call == calls[c] IN
      (Resolving(call) /\ ~call.wasDefined)
        => /\ Resolved(call)
           /\ NonStrictEmpty(mongooseModels[call.bound])
           /\ (call.prev # "" => (call.bound = call.prev /\ ~call.fresh))

\* C7: a create_collection whose descriptor set is invalid (itemType on a
\* field that is no array, or an unknown type or itemType) fails before
\* anything changes: no binding is set and no store operation is issued.
C7_InvalidDescriptorRejected ==
  \A c \in Callers :
    LET call == calls[c] IN
      (call.op = "create_collection" /\ Dispatched(call)
       /\ ~ValidDescriptorSet(call.schema))
        => /\ call.pc = "Failed"
           /\ ~Resolved(call)
           /\ call.reply = << >>

\* The uniform failure envelope: McpError(InternalError) whose message is
\* `Tool execution failed: ` followed by the message of the error caught.
Envelope(out) ==
  /\ ~out.ok
  /\ out.code = "InternalError"
  /\ Len(out.message) > 3
  /\ SubSeq(out.message, 1, 3) = <<"MCP error", "InternalError", "Tool execution failed">>

Original(out) == SubSeq(out.message, 4, Len(out.message))

IsConnectionError(out) == Original(out) = ConnectionFailure.message

IsUnknownOperation(out) == Includes(Original(out), "Unknown tool")

Classify(out) ==
  IF IsConnectionError(out) THEN "ConnectionError"
  ELSE IF IsUnknownOperation(out) THEN "UnknownOperation"
  ELSE "HandlerError"

Unknown(call) == call.pc # "Idle" /\ call.op \notin KnownTools

\* C6 as stated: a call of an unknown tool ends in Failed with
\* UnknownOperation whatever the connection state, and runs no handler.
C6_UnknownAlwaysUnknownOperation ==
  \A c \in Callers :
    LET call == calls[c] IN
      Unknown(call)
        => /\ ~Dispatched(call)
           /\ call.pc \in Terminal
                => (call.pc = "Failed" /\ Envelope(call.out)
                    /\ IsUnknownOperation(call.out))

\* C6 as amended: a call of an unknown tool runs no handler and ends in
\* Failed; the failure is UnknownOperation, naming the tool, when the
\* connection was active or could be opened, and ConnectionError when the
\* call's connection attempt failed.
C6_UnknownToolFails ==
  \A c \in Callers :
    LET call == calls[c] IN
      Unknown(call)
        => /\ ~Dispatched(call)
           /\ call.pc \notin {"Executing", "Replied", "Succeeded"}
           /\ call.bound = "" /\ call.reply = << >>
           /\ call.pc = "Failed"
                => /\ Envelope(call.out)
                   /\ IF call.stage = "Connecting"
                        THEN IsConnectionError(call.out)
                        ELSE /\ call.stage = "Resolving"
                             /\ IsUnknownOperation(call.out)
                             /\ Includes(Original(call.out), call.op)

C6_Witness ==
  \E c \in Callers :
    /\ Unknown(calls[c])
    /\ calls[c].pc = "Failed"
    /\ calls[c].stage = "Resolving"
    /\ IsUnknownOperation(calls[c].out)

Raised(call) ==
  IF call.stage = "Connecting" THEN ConnectionFailure
  ELSE IF call.stage = "Resolving"
    THEN McpError("MethodNotFound", <<"Unknown tool", call.op>>)
  ELSE IF call.reply # << >> THEN HandlerError(call)
  ELSE Err(FailPrefix(call.op, call.name)
           \o OverwriteModelError(IF call.op = "create_collection" THEN call.name
                                  ELSE ModelNameFor(call.name, Suffix(call.op))))

\* C9: a call has no outcome until it ends, and then exactly one: the
\* handler's content, or the failure envelope carrying the message of the
\* error that was raised, which reads as ConnectionError when connecting
\* failed, UnknownOperation when the tool is unknown and HandlerError
\* otherwise.
C9_OneWrappedOutcome ==
  \A c \in Callers :
    LET call == calls[c] IN
      /\ call.pc \notin Terminal => call.out = NoOut
      /\ call.pc = "Succeeded"
           => /\ call.out = Content(<<call.op, call.name>>)
              /\ Dispatched(call)
              /\ call.reply = Ok
      /\ call.pc = "Failed"
           => /\ Envelope(call.out)
              /\ Original(call.out) = Raised(call).message
              /\ Classify(call.out) =
                   (IF call.stage = "Connecting" THEN "ConnectionError"
                    ELSE IF call.stage = "Resolving" THEN "UnknownOperation"
                    ELSE "HandlerError")

C9_Witness ==
  \E c \in Callers :
    /\ calls[c].pc = "Failed"
    /\ calls[c].stage = "Executing"
    /\ calls[c].reply # << >>
    /\ Classify(calls[c].out) = "HandlerError"

\* C10: a failed connection attempt fails exactly the calls awaiting it,
\* each with ConnectionError and before any handler ran; it leaves the
\* registry and the store as they were and the connection disconnected, so
\* that a call received afterwards opens a new attempt.
C10_ConnectionFailureFatalToCallOnly ==
  /\ [](\A c \in Callers :
          (calls[c].pc = "Failed" /\ calls[c].stage = "Connecting")
            => /\ Envelope(calls[c].out)
               /\ IsConnectionError(calls[c].out)
               /\ calls[c].bound = "" /\ calls[c].reply = << >>)
  /\ [][(\E c \in Callers :
            /\ calls[c].pc = "Connecting"
            /\ calls'[c].pc = "Failed" /\ calls'[c].stage = "Connecting")
          => /\ readyState' = Disconnected
             /\ registry' = registry
             /\ colls' = colls
             /\ \A d \in Callers :
                  calls[d].pc # "Connecting" => calls'[d] = calls[d]]_vars
  /\ [][\A c \in Callers :
          (calls[c].pc = "Received" /\ calls'[c].pc # "Received"
           /\ readyState = Disconnected)
            => /\ calls'[c].pc = "Connecting"
               /\ readyState' = ConnectingState
               /\ opening' = 1]_vars

C10_Witness ==
  \E c, d \in Callers :
    /\ calls[c].pc = "Failed"
    /\ calls[c].stage = "Connecting"
    /\ calls[d].pc = "Succeeded"
    /\ readyState = Connected

\* ---------------------------------------------------------------- C11
\* The operations a caller may name: add one, add many, query with filters,
\* delete by id and aggregate stats on the fixed collection, and the six on
\* caller-named collections.
FixedSchemaOperations ==
  {"add_dsa_question", "add_multiple_dsa_questions", "get_dsa_questions",
   "delete_dsa_question", "get_collection_stats"}

GenericOperations ==
  {"get_all_collections", "create_collection", "delete_collection",
   "get_documents", "add_document", "update_collection_name"}

\* C11: once a call's name has been looked up, its handler has been invoked
\* if and only if the name is one of the eleven operations (five on the
\* fixed collection, six generic); every other name is unknown.
C11_ElevenOperationsResolve ==
  \A c \in Callers :
    calls[c].stage \in {"Resolving", "Executing"} =>
      (Dispatched(calls[c]) <=> calls[c].op \in FixedSchemaOperations \cup GenericOperations)

\* ---------------------------------------------------------------- C12
IsNotFound(out) == Original(out)[1] = "Collection does not exist"

\* The store's part of one call: the step in which it answers the call.
StoreAnswers(c, op) ==
  /\ calls[c].op = op
  /\ calls[c].pc = "Executing"
  /\ calls'[c].pc = "Replied"

\* The handler's part after the answer: the step in which the call ends.
HandlerEnds(c, op) ==
  /\ calls[c].op = op
  /\ calls[c].pc = "Replied"
  /\ calls'[c].pc \in Terminal

OthersKeepBinding(name) ==
  \A n \in (DOMAIN dynamicModels \cup DOMAIN dynamicModels') \ {name} :
    /\ n \in DOMAIN dynamicModels /\ n \in DOMAIN dynamicModels'
    /\ dynamicModels'[n] = dynamicModels[n]

\* C12: delete_collection of a collection the store holds drops it and the
\* call then removes the name's binding, leaving every other binding; of a
\* collection the store does not hold it changes nothing in the store, fails
\* with NotFound, never succeeds, and leaves the registry as it was. (A drop
\* the store could not perform at all fails the call as any store error
\* does, with store and registry as they were.)
C12_DeleteCollection ==
  /\ [][\A c \in Callers :
          StoreAnswers(c, "delete_collection") =>
            IF calls[c].name \in colls
              THEN calls'[c].reply = Ok => colls' = colls \ {calls[c].name}
              ELSE /\ calls'[c].reply \in {<<"ns not found">>, <<"store error">>}
                   /\ colls' = colls]_vars
  /\ [][\A c \in Callers :
          HandlerEnds(c, "delete_collection") =>
            IF calls[c].reply = Ok
              THEN /\ calls'[c].pc = "Succeeded"
                   /\ calls[c].name \notin DOMAIN dynamicModels'
                   /\ OthersKeepBinding(calls[c].name)
              ELSE /\ calls'[c].pc = "Failed"
                   /\ dynamicModels' = dynamicModels
                   /\ Includes(calls[c].reply, "ns not found")
                        => (Envelope(calls'[c].out) /\ IsNotFound(calls'[c].out))]_vars

\* A delete_collection has succeeded and taken away the binding the name
\* had; the collection is gone.
C12_Witness ==
  \E c \in Callers :
    /\ calls[c].op = "delete_collection"
    /\ calls[c].pc = "Succeeded"
    /\ calls[c].bound # ""
    /\ calls[c].name \notin DOMAIN dynamicModels
    /\ calls[c].name \notin colls

\* ---------------------------------------------------------------- C13
\* C13: update_collection_name whose source the store does not hold changes
\* nothing in the store, fails (with NotFound when the store says the source
\* is missing) and leaves the registry as it was; one whose source the store
\* holds while oldName has no binding succeeds, once the store has renamed,
\* with the registry as it was: nothing added or replaced under newName.
C13_RenameLeavesRegistry ==
  /\ [][\A c \in Callers :
          (StoreAnswers(c, "update_collection_name") /\ calls[c].name \notin colls)
            => /\ calls'[c].reply \in {<<"source namespace does not exist">>,
                                       <<"store error">>}
               /\ colls' = colls]_vars
  /\ [][\A c \in Callers :
          HandlerEnds(c, "update_collection_name") =>
            IF calls[c].reply # Ok
              THEN /\ calls'[c].pc = "Failed"
                   /\ dynamicModels' = dynamicModels
                   /\ Includes(calls[c].reply, "source namespace does not exist")
                        => (Envelope(calls'[c].out) /\ IsNotFound(calls'[c].out))
              ELSE /\ calls'[c].pc = "Succeeded"
                   /\ calls[c].name \notin DOMAIN dynamicModels
                        => dynamicModels' = dynamicModels]_vars

\* A rename has succeeded in the store for a name that had no binding, while
\* the new name had one, which is still there.
C13_Witness ==
  \E c \in Callers :
    /\ calls[c].op = "update_collection_name"
    /\ calls[c].pc = "Succeeded"
    /\ calls[c].bound = ""
    /\ calls[c].newName \in colls
    /\ calls[c].name \notin DOMAIN dynamicModels
    /\ calls[c].newName \in DOMAIN dynamicModels

\* ---------------------------------------------------------------- C14
RECURSIVE SumCounts(_)
SumCounts(groups) ==
  IF groups = <<>> THEN 0 ELSE Head(groups).count + SumCounts(Tail(groups))

\* The number of documents of the collection whose field holds the token.
RecordsWith(field, token) ==
  Cardinality({i \in 1..Len(questions) : Has(questions[i][field], token)})

TokensOf(field) ==
  UNION {{questions[i][field][j] : j \in 1..Len(questions[i][field])} :
           i \in 1..Len(questions)}

\* A top list as the claim describes it: at most ten entries, one per token,
\* in descending order of count, each with the number of documents holding
\* the token, and no token left out that is more frequent than one listed.
TopByRecords(list, field) ==
  /\ Len(list) = Min(TopN, Cardinality(TokensOf(field)))
  /\ \A i, j \in 1..Len(list) :
       /\ i < j => list[i].count >= list[j].count
       /\ i # j => list[i].id # list[j].id
  /\ \A i \in 1..Len(list) :
       /\ list[i].id \in TokensOf(field)
       /\ list[i].count = RecordsWith(field, list[i].id)
       /\ \A t \in TokensOf(field) :
            (\A j \in 1..Len(list) : list[j].id # t)
              => RecordsWith(field, t) <= list[i].count

\* C14: the stats returned are the number of documents, per-level counts
\* that sum to it, and for datastructure and for algorithm the (at most ten)
\* most frequent tokens in descending order of count, a token's count being
\* the number of documents that hold it, however often a document lists it.
C14_StatsCountRecords ==
  answer.op = "get_collection_stats" =>
    /\ answer.total = Len(questions)
    /\ SumCounts(answer.levels) = answer.total
    /\ TopByRecords(answer.ds, "datastructure")
    /\ TopByRecords(answer.algo, "algorithm")

\* ---------------------------------------------------------------- C15
\* The positions (creation order) of the documents that match the filter.
Matching(filter) == {i \in 1..Len(questions) : Matches(questions[i], filter)}

\* C15: the documents a query returns all match every filter supplied, are
\* at most `limit` many for the limit the caller gave (10 when none), and
\* are the most recently created matching ones, newest first.
C15_QueryNewestWithinLimit ==
  answer.op = "get_dsa_questions" =>
    LET found == answer.found IN
      /\ \A i \in 1..Len(found) : found[i] \in Matching(answer.query)
      /\ Len(found) <= answer.limit
      /\ \A i, j \in 1..Len(found) : i < j => found[i] > found[j]
      /\ \A k \in Matching(answer.query) :
           (\A i \in 1..Len(found) : found[i] # k)
             => /\ Len(found) = answer.limit
                /\ \A i \in 1..Len(found) : k < found[i]

\* ---------------------------------------------------------------- C16
StageOrder ==
  [s \in {"", "Received", "Connecting", "Resolving", "Executing"} |->
     CASE s = "" -> 0 [] s = "Received" -> 1 [] s = "Connecting" -> 2
       [] s = "Resolving" -> 3 [] s = "Executing" -> 4]

\* The call's name is looked up in this step (and its handler invoked, if
\* it has one).
Enters(c) ==
  /\ calls[c].stage \in {"Received", "Connecting"}
  /\ calls'[c].stage \in {"Resolving", "Executing"}

\* ensureConnected has returned normally for a call that is where calls[c]
\* is: the connection is ready, or (for a call that did not have to wait)
\* mongoose.connect returned the connection that is being opened.
EnsureConnectedDone(c) ==
  \/ readyState = Connected
  \/ calls[c].pc = "Received" /\ readyState = ConnectingState

\* C16: a call moves through its stages forwards only; its name is resolved
\* and its handler invoked only once ensureConnected has returned normally
\* in that call, and registry and store change only in steps of calls whose
\* handler has been invoked; a call whose connection attempt fails goes from
\* Connecting straight to Failed with the connection error, no name
\* resolved, no handler invoked, registry and store as they were.
C16_StagesInOrder ==
  /\ [][\A c \in Callers :
          /\ calls'[c].pc # "Idle" => StageOrder[calls[c].stage] <= StageOrder[calls'[c].stage]
          /\ Enters(c) => EnsureConnectedDone(c)]_vars
  /\ [][(registry' # registry \/ colls' # colls) =>
          \E c \in Callers : calls'[c] # calls[c] /\ Dispatched(calls'[c])]_vars
  /\ [][(readyState = ConnectingState /\ readyState' = Disconnected) =>
          /\ registry' = registry /\ colls' = colls
          /\ \A c \in Callers :
               calls[c].pc = "Connecting" =>
                 /\ calls'[c].pc = "Failed" /\ calls'[c].stage = "Connecting"
                 /\ IsConnectionError(calls'[c].out)
                 /\ calls'[c].bound = "" /\ calls'[c].reply = << >>]_vars

\* One call has failed in Connecting; a later one got connected and its
\* handler is waiting for the store.
C16_Witness ==
  \E c, d \in Callers :
    /\ calls[c].pc = "Failed" /\ calls[c].stage = "Connecting"
    /\ calls[d].pc = "Executing" /\ Dispatched(calls[d])
    /\ readyState = Connected

\* ---------------------------------------------------------------- C17
\* C17: nothing is retried. Within one call the connection attempt is
\* awaited at most once and the handler's store operation is performed at
\* most once; a connection attempt or store operation that fails ends the
\* call in Failed in the call's next step, with one failure report (the
\* envelope), and a failed call does nothing more than respond.
C17_NothingRetried ==
  /\ [](\A c \in Callers :
          /\ calls[c].connects <= 1
          /\ calls[c].ops <= 1
          /\ calls[c].pc = "Failed" => Envelope(calls[c].out))
  /\ [][\A c \in Callers :
          /\ (calls[c].pc = "Replied" /\ calls[c].reply # Ok /\ calls'[c] # calls[c])
               => (calls'[c].pc = "Failed" /\ calls'[c].ops = calls[c].ops)
          /\ (calls[c].pc = "Connecting" /\ readyState = ConnectingState
              /\ readyState' = Disconnected)
               => (calls'[c].pc = "Failed" /\ calls'[c].connects = calls[c].connects)
          /\ (calls[c].pc = "Failed" /\ calls'[c] # calls[c])
               => calls'[c] = Idle]_vars

\* A call that awaited its connection attempt and whose store operation then
\* failed has ended in Failed, each of the two done once.
C17_Witness ==
  \E c \in Callers :
    /\ calls[c].pc = "Failed"
    /\ calls[c].connects = 1
    /\ calls[c].ops = 1
    /\ calls[c].reply = <<"store error">>

\* ---------------------------------------------------------------- C18
\* The registry differs from what it was in the binding of `name` at most.
OnlyChanges(names) ==
  \A n \in (DOMAIN dynamicModels \cup DOMAIN dynamicModels') \ names :
    /\ n \in DOMAIN dynamicModels /\ n \in DOMAIN dynamicModels'
    /\ dynamicModels'[n] = dynamicModels[n]

\* C18: with calls pipelined, every step that changes the registry is one
\* whole mutation by one call: a define (the name bound to the call's
\* model), a forget (the name unbound), or a rekey, in which the binding
\* leaves oldName and is under newName in the same step. No state, hence no
\* read by another call, lies between the two halves of a rekey.
C18_RegistryMutationsAtomic ==
  [][dynamicModels' # dynamicModels =>
       \E c \in Callers :
         LET call == calls[c] IN
           \/ /\ call.op \in {"create_collection", "get_documents", "add_document"}
              /\ Enters(c)
              /\ call.name \in DOMAIN dynamicModels'
              /\ dynamicModels'[call.name] = calls'[c].bound
              /\ OnlyChanges({call.name})
           \/ /\ HandlerEnds(c, "delete_collection")
              /\ call.name \notin DOMAIN dynamicModels'
              /\ OnlyChanges({call.name})
           \/ /\ HandlerEnds(c, "update_collection_name")
              /\ call.name \in DOMAIN dynamicModels
              /\ call.name \notin DOMAIN dynamicModels'
              /\ call.newName \in DOMAIN dynamicModels'
              /\ dynamicModels'[call.newName] = dynamicModels[call.name]
              /\ OnlyChanges({call.name, call.newName})]_vars

\* A rename has moved a binding while another call, which had read that
\* binding from the registry, is still waiting for the store.
C18_Witness ==
  \E c, d \in Callers :
    /\ calls[c].op = "update_collection_name"
    /\ calls[c].pc = "Succeeded"
    /\ calls[c].bound # ""
    /\ calls[c].newName \in DOMAIN dynamicModels
    /\ dynamicModels[calls[c].newName] = calls[c].bound
    /\ calls[d].op = "get_documents"
    /\ calls[d].pc = "Executing"
    /\ calls[d].bound = calls[c].bound

\* ---------------------------------------------------------------- C19
\* C19: on SIGINT the connection to the store is closed before the process
\* exits: the process has never exited with a connection open.
C19_ClosedBeforeExit == proc = "exited" => clients = 0

\* ---------------------------------------------------------------- C20
\* C20: the binding cached under a name reads from and writes to the
\* collection of that name: every model in the registry is one compiled for
\* the collection it is filed under, and the model a get_documents or
\* add_document call works with is one for the collection the call names,
\* also after a rename has moved the binding to that name.
C20_BindingTargetsItsKey ==
  /\ \A n \in DOMAIN dynamicModels : Binding(n).coll = n
  /\ \A c \in Callers :
       (Resolving(calls[c]) /\ Resolved(calls[c]))
         => mongooseModels[calls[c].bound].coll = calls[c].name

\* ---------------------------------------------------------------- C21
\* What the registry held for the call's name when its handler started
\* (call.prev) is what it holds now.
RegistryAsBefore(call) ==
  IF call.prev = ""
    THEN call.name \notin DOMAIN dynamicModels
    ELSE /\ call.name \in DOMAIN dynamicModels
         /\ dynamicModels[call.name] = call.prev

\* C21: with calls served one at a time, a create_collection call that has
\* ended in Failed, whichever of its steps failed, has left the registry as
\* it was before the call: the name has the binding it had, or none if it
\* had none.
C21_FailedCreateLeavesRegistry ==
  \A c \in Callers :
    (calls[c].op = "create_collection" /\ calls[c].pc = "Failed"
     /\ Dispatched(calls[c]))
      => RegistryAsBefore(calls[c])

\* ---------------------------------------------------------------- C22
\* Call d was received before call c returned success.
IssuedBeforeSuccessOf(d, c) == calls[d].seq <= calls[c].doneAt

\* create_collection call c has returned success and its strict binding is
\* the one the registry holds for the name.
CreateStands(c) ==
  /\ calls[c].op = "create_collection"
  /\ calls[c].pc = "Succeeded"
  /\ calls[c].name \in DOMAIN dynamicModels
  /\ dynamicModels[calls[c].name] = calls[c].bound

\* C22: with calls pipelined, the binding a successful create_collection(N)
\* installed is not taken away by a delete_collection or
\* update_collection_name on N that was received before the create returned
\* success: when such a call ends, the binding is still there.
C22_EarlierDeleteKeepsBinding ==
  [][\A c, d \in Callers :
       (/\ CreateStands(c)
        /\ calls[d].op \in {"delete_collection", "update_collection_name"}
        /\ calls[d].name = calls[c].name
        /\ calls[d].pc = "Replied" /\ calls'[d].pc \in Terminal
        /\ IssuedBeforeSuccessOf(d, c))
         => /\ calls[c].name \in DOMAIN dynamicModels'
            /\ dynamicModels'[calls[c].name] = calls[c].bound]_vars

====
